---------------------------- MODULE Spec2Model ----------------------------
(***************************************************************************)
(* AI Study Partner: the Express API (src/src/api/server.js), the chat     *)
(* panel StudyChat (src/unnamed/part_000), the quiz panel QuizGenerator    *)
(* (src/src/components/QuizGenerator.jsx) and the tab host App             *)
(* (src/src/App.jsx).                                                      *)
(*                                                                         *)
(* JavaScript values are represented as follows:                           *)
(*   string            a TLA+ string (Len, \o and SubSeq act on them)      *)
(*   object            a record; an absent property is an absent field     *)
(*   array             a sequence                                          *)
(*   null / a value    Null / Some(v)                                      *)
(***************************************************************************)
EXTENDS Integers, Sequences, FiniteSets, TLC

VARIABLES
  env,          \* process.env of the server process
  srvLog,       \* the last request the API answered, with its response
  activeTab,    \* App: 'chat' | 'quiz'
  messages,     \* StudyChat: the transcript
  input,        \* StudyChat: the text box
  isLoading,    \* StudyChat: in-flight flag
  chatReqs,     \* fetches issued by StudyChat instances and not yet settled
  topic,        \* QuizGenerator: the topic box
  questions,    \* QuizGenerator: Null or Some(list of questions)
  answers,      \* QuizGenerator: object questionIndex -> answerIndex
  submitted,    \* QuizGenerator
  score,        \* QuizGenerator: Null or Some(n)
  isGenerating, \* QuizGenerator: in-flight flag
  quizReqs,     \* fetches issued by QuizGenerator instances, not yet settled
  alerts,       \* text of the alert() dialog shown in the last step, "" if none
  lastOp        \* the handler that returned at its guard in the last step

vars == <<env, srvLog, activeTab, messages, input, isLoading, chatReqs, topic,
          questions, answers, submitted, score, isGenerating, quizReqs,
          alerts, lastOp>>

serverVars == <<env, srvLog>>

chatVars == <<messages, input, isLoading>>

quizVars == <<topic, questions, answers, submitted, score, isGenerating>>

-----------------------------------------------------------------------------
(* Bounds *)

\* longest transcript a submission is still accepted on
MaxMessages == 6

\* most fetches one panel may have pending (over all its instances)
MaxPending == 2

\* most questions in a generated quiz payload
MaxQuestions == 2

\* option indices a radio button / a correctAnswer may carry: 0..MaxOption
MaxOption == 1

-----------------------------------------------------------------------------
(* JavaScript values *)

Null == <<"null">>

Some(v) == <<"some", v>>

IsNull(o) == o[1] = "null"

Val(o) == o[2]

Has(obj, key) == key \in DOMAIN obj

\* obj.key || dflt for string properties: undefined and '' are both falsy
OrElse(obj, key, dflt) == IF Has(obj, key) /\ obj[key] # "" THEN obj[key] ELSE dflt

-----------------------------------------------------------------------------
(* String.prototype functions *)

IsWhitespace(c) == c \in {" ", "\t", "\n"}

LowerChar(c) ==
  CASE c = "A" -> "a" [] c = "B" -> "b" [] c = "C" -> "c" [] c = "D" -> "d"
    [] c = "E" -> "e" [] c = "F" -> "f" [] c = "G" -> "g" [] c = "H" -> "h"
    [] c = "I" -> "i" [] c = "J" -> "j" [] c = "K" -> "k" [] c = "L" -> "l"
    [] c = "M" -> "m" [] c = "N" -> "n" [] c = "O" -> "o" [] c = "P" -> "p"
    [] c = "Q" -> "q" [] c = "R" -> "r" [] c = "S" -> "s" [] c = "T" -> "t"
    [] c = "U" -> "u" [] c = "V" -> "v" [] c = "W" -> "w" [] c = "X" -> "x"
    [] c = "Y" -> "y" [] c = "Z" -> "z" [] OTHER -> c

RECURSIVE ToLowerCase(_)
ToLowerCase(s) ==
  IF Len(s) = 0 THEN ""
  ELSE LowerChar(SubSeq(s, 1, 1)) \o ToLowerCase(SubSeq(s, 2, Len(s)))

RECURSIVE TrimStart(_)
TrimStart(s) ==
  IF Len(s) > 0 /\ IsWhitespace(SubSeq(s, 1, 1))
  THEN TrimStart(SubSeq(s, 2, Len(s)))
  ELSE s

RECURSIVE TrimEnd(_)
TrimEnd(s) ==
  IF Len(s) > 0 /\ IsWhitespace(SubSeq(s, Len(s), Len(s)))
  THEN TrimEnd(SubSeq(s, 1, Len(s) - 1))
  ELSE s

Trim(s) == TrimEnd(TrimStart(s))

Includes(s, sub) ==
  \E i \in 1..(Len(s) - Len(sub) + 1) : SubSeq(s, i, i + Len(sub) - 1) = sub

StartsWith(s, prefix) ==
  Len(s) >= Len(prefix) /\ SubSeq(s, 1, Len(prefix)) = prefix

\* s.slice(n)
Slice(s, n) == SubSeq(s, n + 1, Len(s))


\* encodeURIComponent escapes every character outside A-Z a-z 0-9 - _ . ! ~ * ' ( )
PercentCodes ==
  << <<" ", "%20">>, <<"%", "%25">>, <<"+", "%2B">>, <<"/", "%2F">>,
     <<"?", "%3F">>, <<"&", "%26">>, <<"=", "%3D">>, <<"#", "%23">>,
     <<":", "%3A">>, <<",", "%2C">>, <<"<", "%3C">>, <<">", "%3E">>,
     <<"\"", "%22">>, <<"\t", "%09">>, <<"\n", "%0A">> >>

EncodeChar(c) ==
  IF \E k \in 1..Len(PercentCodes) : PercentCodes[k][1] = c
  THEN LET k == CHOOSE j \in 1..Len(PercentCodes) : PercentCodes[j][1] = c
       IN  PercentCodes[k][2]
  ELSE c

RECURSIVE encodeURIComponent(_)
encodeURIComponent(s) ==
  IF Len(s) = 0 THEN ""
  ELSE EncodeChar(SubSeq(s, 1, 1)) \o encodeURIComponent(SubSeq(s, 2, Len(s)))

\* the query-string decoding express applies before req.query is read:
\* %XX escapes are undone and '+' stands for a space
RECURSIVE DecodeQueryValue(_)
DecodeQueryValue(s) ==
  IF Len(s) = 0 THEN ""
  ELSE IF SubSeq(s, 1, 1) = "+" THEN " " \o DecodeQueryValue(SubSeq(s, 2, Len(s)))
  ELSE IF Len(s) >= 3 /\ \E k \in 1..Len(PercentCodes) : PercentCodes[k][2] = SubSeq(s, 1, 3)
  THEN LET k == CHOOSE j \in 1..Len(PercentCodes) : PercentCodes[j][2] = SubSeq(s, 1, 3)
       IN  PercentCodes[k][1] \o DecodeQueryValue(SubSeq(s, 4, Len(s)))
  ELSE SubSeq(s, 1, 1) \o DecodeQueryValue(SubSeq(s, 2, Len(s)))

\* title.replace(/\s+/g, '_')
RECURSIVE ReplaceWhitespaceRuns(_)
ReplaceWhitespaceRuns(s) ==
  IF Len(s) = 0 THEN ""
  ELSE IF IsWhitespace(SubSeq(s, 1, 1))
  THEN "_" \o ReplaceWhitespaceRuns(TrimStart(s))
  ELSE SubSeq(s, 1, 1) \o ReplaceWhitespaceRuns(SubSeq(s, 2, Len(s)))

\* index of the first '>' in s, 0 if there is none
FirstGt(s) ==
  IF \E i \in 1..Len(s) : SubSeq(s, i, i) = ">"
  THEN CHOOSE i \in 1..Len(s) :
         /\ SubSeq(s, i, i) = ">"
         /\ \A j \in 1..(i - 1) : SubSeq(s, j, j) # ">"
  ELSE 0

\* snippet.replace(/<\/?span[^>]*>/g, '')
RECURSIVE StripSpanTags(_)
StripSpanTags(s) ==
  IF Len(s) = 0 THEN ""
  ELSE IF (StartsWith(s, "<span") \/ StartsWith(s, "</span")) /\ FirstGt(s) > 0
  THEN StripSpanTags(SubSeq(s, FirstGt(s) + 1, Len(s)))
  ELSE SubSeq(s, 1, 1) \o StripSpanTags(SubSeq(s, 2, Len(s)))

-----------------------------------------------------------------------------
(* server.js: configuration and helpers *)

hasGeminiKey == Has(env, "GEMINI_API_KEY") /\ env.GEMINI_API_KEY # ""

geminiApiKey == IF hasGeminiKey THEN Some(Trim(env.GEMINI_API_KEY)) ELSE Null

genAI == IF hasGeminiKey THEN Some([apiKey |-> Val(geminiApiKey)]) ELSE Null

STUDY_CHAT_PROMPT ==
  "You are a helpful AI study partner. Provide clear, educational explanations to help students learn. Be concise but thorough."

QUIZ_INSTRUCTIONS ==
  "You are a quiz generator. Generate exactly 5 multiple-choice questions with 4 options each. Respond ONLY with valid JSON in this exact format: {\"questions\": [{\"question\": \"...\", \"options\": [\"A\", \"B\", \"C\", \"D\"], \"correctAnswer\": 0}]} where correctAnswer is the index (0-3) of the correct option."

\* messages.forEach(...) without the `if (!message?.content) return` of line 42
RECURSIVE ConversationTurns_NoSkip(_)
ConversationTurns_NoSkip(msgs) ==
  IF Len(msgs) = 0 THEN <<>>
  ELSE LET message == Head(msgs)
       IN  << [role  |-> IF Has(message, "role") /\ message.role = "assistant"
                         THEN "model" ELSE "user",
               parts |-> <<[text |-> IF Has(message, "content")
                                     THEN message.content ELSE ""]>>] >>
           \o ConversationTurns_NoSkip(Tail(msgs))

\* messages.forEach(...) of buildConversation: an entry without content
\* (absent or '') is skipped, role 'assistant' becomes 'model', any other 'user'
RECURSIVE ConversationTurns(_)
ConversationTurns(msgs) ==
  IF Len(msgs) = 0 THEN <<>>
  ELSE LET message == Head(msgs)
           rest    == ConversationTurns(Tail(msgs))
       IN  IF ~(Has(message, "content") /\ message.content # "")
           THEN rest
           ELSE << [role  |-> IF Has(message, "role") /\ message.role = "assistant"
                              THEN "model" ELSE "user",
                    parts |-> <<[text |-> message.content]>>] >> \o rest

buildConversation(msgs, includePrompt) ==
  (IF includePrompt
   THEN << [role |-> "user", parts |-> <<[text |-> STUDY_CHAT_PROMPT]>>] >>
   ELSE <<>>)
  \o ConversationTurns(msgs)

InvalidKeyGuidance ==
  "Invalid Gemini API key. Please update GEMINI_API_KEY in your .env file from https://aistudio.google.com/app/apikey"

QuotaGuidance ==
  "Gemini API quota exceeded. Please review your Google AI Studio usage and billing."

RateLimitGuidance ==
  "Gemini rate limit reached. Please wait a moment and try again."

DefaultGeminiError == "Gemini API request failed."

\* createErrorMessage without the "rate limit" rule of lines 65-67
createErrorMessage_NoRateLimitRule(error) ==
  LET errorMessage == OrElse(error, "message", DefaultGeminiError)
      lower        == ToLowerCase(errorMessage)
  IN  IF Includes(lower, "permission") \/ Includes(lower, "unauthorized")
         \/ Includes(lower, "api key")
      THEN InvalidKeyGuidance
      ELSE IF Includes(lower, "quota") \/ Includes(lower, "billing")
              \/ Includes(lower, "exceeded")
      THEN QuotaGuidance
      ELSE errorMessage

\* createErrorMessage with the quota rule tested before the credential rule
createErrorMessage_QuotaFirst(error) ==
  LET errorMessage == OrElse(error, "message", DefaultGeminiError)
      lower        == ToLowerCase(errorMessage)
  IN  IF Includes(lower, "quota") \/ Includes(lower, "billing")
         \/ Includes(lower, "exceeded")
      THEN QuotaGuidance
      ELSE IF Includes(lower, "permission") \/ Includes(lower, "unauthorized")
              \/ Includes(lower, "api key")
      THEN InvalidKeyGuidance
      ELSE IF Includes(lower, "rate limit")
      THEN RateLimitGuidance
      ELSE errorMessage

createErrorMessage(error) ==
  LET errorMessage == OrElse(error, "message", DefaultGeminiError)
      lower        == ToLowerCase(errorMessage)
  IN  IF Includes(lower, "permission") \/ Includes(lower, "unauthorized")
         \/ Includes(lower, "api key")
      THEN InvalidKeyGuidance
      ELSE IF Includes(lower, "quota") \/ Includes(lower, "billing")
              \/ Includes(lower, "exceeded")
      THEN QuotaGuidance
      ELSE IF Includes(lower, "rate limit")
      THEN RateLimitGuidance
      ELSE errorMessage

SearchCredentialGuidance ==
  "Invalid Google Search API credentials. Please set GOOGLE_SEARCH_API_KEY and GOOGLE_SEARCH_CX in your .env."

SearchQuotaGuidance ==
  "Search quota exceeded. Check your Google Programmable Search quotas."

buildSearchErrorMessage(error) ==
  LET message == OrElse(error, "message", "Search request failed.")
      lower   == ToLowerCase(message)
  IN  IF Includes(lower, "permission") \/ Includes(lower, "api key")
      THEN SearchCredentialGuidance
      ELSE IF Includes(lower, "daily") \/ Includes(lower, "limit")
              \/ Includes(lower, "quota")
      THEN SearchQuotaGuidance
      ELSE message

\* what the JavaScript engine throws on genAI.getGenerativeModel when genAI is null
NullGenAIError ==
  [name |-> "TypeError",
   message |-> "Cannot read properties of null (reading 'getGenerativeModel')"]

\* what it throws on messages.forEach when messages is undefined
UndefinedMessagesError ==
  [name |-> "TypeError",
   message |-> "Cannot read properties of undefined (reading 'forEach')"]

\* what JSON.parse throws on text that is not JSON
JsonSyntaxError ==
  [name |-> "SyntaxError", message |-> "Unexpected token in JSON at position 0"]

-----------------------------------------------------------------------------
(* server.js: the three endpoints.  An endpoint maps the request and the   *)
(* outcome `up` of the upstream call (used only if the call is made) to    *)
(* the response; `upstream` lists the upstream calls made and `logged` the *)
(* errors written with console.error.                                      *)

Reply(status, body, upstream, logged) ==
  [status |-> status, body |-> body, upstream |-> upstream, logged |-> logged]

\* app.post('/api/chat'); up is [text |-> t] or [error |-> e]
ChatEndpoint(body, up) ==
  IF ~hasGeminiKey
  THEN Reply(503, [error   |-> "Gemini is not configured",
                   details |-> "Add GEMINI_API_KEY to your .env to enable chat."],
             <<>>, <<>>)
  ELSE IF ~Has(body, "messages")
  THEN Reply(500, [error   |-> "Failed to get response from Gemini",
                   details |-> createErrorMessage(UndefinedMessagesError)],
             <<>>, <<UndefinedMessagesError>>)
  ELSE LET call == [service  |-> "gemini",
                    model    |-> "gemini-1.5-pro-latest",
                    contents |-> buildConversation(body.messages, TRUE)]
       IN  IF Has(up, "error")
           THEN Reply(500, [error   |-> "Failed to get response from Gemini",
                            details |-> createErrorMessage(up.error)],
                      <<call>>, <<up.error>>)
           ELSE Reply(200, [response |-> up.text], <<call>>, <<>>)

\* one hit of data.query.search as returned to the client
SearchResultOf(item) ==
  [title   |-> item.title,
   link    |-> "https://en.wikipedia.org/wiki/"
               \o encodeURIComponent(ReplaceWhitespaceRuns(item.title)),
   snippet |-> IF Has(item, "snippet") /\ item.snippet # ""
               THEN StripSpanTags(item.snippet) ELSE ""]

\* /api/search with the credential tested before q
SearchEndpoint_KeyFirst(query, up) ==
  LET q == Trim(IF Has(query, "q") THEN query.q ELSE "")
  IN  IF ~hasGeminiKey
      THEN Reply(503, [error   |-> "Gemini is not configured",
                       details |-> "Add GEMINI_API_KEY to your .env to enable quiz generation."],
                 <<>>, <<>>)
      ELSE IF q = ""
      THEN Reply(400, [error |-> "Missing query parameter q"], <<>>, <<>>)
      ELSE Reply(200, [results |-> <<>>], <<[service |-> "wikipedia", srsearch |-> q]>>, <<>>)

\* app.get('/api/search'); query is req.query; up is [error |-> e] when fetch
\* or response.json() throws, else [ok |-> response.ok, data |-> the body]
SearchEndpoint(query, up) ==
  LET q == Trim(IF Has(query, "q") THEN query.q ELSE "")
  IN  IF q = ""
      THEN Reply(400, [error |-> "Missing query parameter q"], <<>>, <<>>)
      ELSE IF ~hasGeminiKey
      THEN Reply(503, [error   |-> "Gemini is not configured",
                       details |-> "Add GEMINI_API_KEY to your .env to enable quiz generation."],
                 <<>>, <<>>)
      ELSE LET call   == [service |-> "wikipedia", srsearch |-> q]
               thrown ==
                 IF Has(up, "error") THEN Some(up.error)
                 ELSE IF ~up.ok
                 THEN Some([message |->
                              IF Has(up.data, "error")
                              THEN OrElse(up.data.error, "message", "Search request failed")
                              ELSE "Search request failed"])
                 ELSE Null
           IN  IF ~IsNull(thrown)
               THEN Reply(500, [error   |-> "Failed to perform search",
                                details |-> OrElse(Val(thrown), "message",
                                                   "Search request failed")],
                          <<call>>, <<Val(thrown)>>)
               ELSE LET hits == IF Has(up.data, "query") /\ Has(up.data.query, "search")
                                THEN up.data.query.search ELSE <<>>
                    IN  Reply(200,
                              [results |-> [i \in 1..Len(hits) |-> SearchResultOf(hits[i])]],
                              <<call>>, <<>>)

\* app.post('/api/generate-quiz'); up is [error |-> e] or [parsed |-> p] where
\* p is Null when result.response.text() is not JSON, else Some(the value)
QuizEndpoint(body, up) ==
  IF IsNull(genAI)
  THEN Reply(500, [error   |-> "Failed to generate quiz",
                   details |-> createErrorMessage(NullGenAIError)],
             <<>>, <<NullGenAIError>>)
  ELSE LET quizPrompt == QUIZ_INSTRUCTIONS \o "\n\nTopic: "
                         \o (IF Has(body, "topic") THEN body.topic ELSE "undefined")
                         \o "\n\nRemember: respond with raw JSON only."
           call   == [service |-> "gemini", model |-> "gemini-1.5-pro-latest",
                      prompt |-> quizPrompt]
           thrown == IF Has(up, "error") THEN Some(up.error)
                     ELSE IF IsNull(up.parsed) THEN Some(JsonSyntaxError)
                     ELSE Null
       IN  IF ~IsNull(thrown)
           THEN Reply(500, [error   |-> "Failed to generate quiz",
                            details |-> createErrorMessage(Val(thrown))],
                      <<call>>, <<Val(thrown)>>)
           ELSE Reply(200, Val(up.parsed), <<call>>, <<>>)

-----------------------------------------------------------------------------
(* Inputs: environments, upstream outcomes, request payloads *)

Envs ==
  { [PATH |-> "/usr/bin"],
    [PATH |-> "/usr/bin", GEMINI_API_KEY |-> ""],
    [PATH |-> "/usr/bin", GEMINI_API_KEY |-> " AIza-test-key "] }

ErrorMessages ==
  { "API key not valid. Please pass a valid API key.",
    "Permission denied on resource",
    "401 Unauthorized",
    "Your API key has no quota left",
    "Quota exceeded for quota metric",
    "Billing account disabled",
    "Rate limit exceeded",
    "Rate limit reached, slow down",
    "Daily Limit Exceeded",
    "fetch failed",
    "" }

\* errors an upstream call can throw; the last one carries no message
UpstreamErrors ==
  { [name |-> "Error", message |-> m] : m \in ErrorMessages }
  \cup { [name |-> "Error"] }

ReplyTexts == { "Photosynthesis turns light into sugar.", "" }

GeminiChatOutcomes ==
  { [text |-> t] : t \in ReplyTexts } \cup { [error |-> e] : e \in UpstreamErrors }

SeedGreeting ==
  [role    |-> "assistant",
   content |-> "Hello! I'm your AI Study Partner. Ask me any question and I'll help you learn!"]

\* bodies an HTTP client may POST to /api/chat
ChatBodies ==
  { [topic |-> "Photosynthesis"],
    [messages |-> <<>>],
    [messages |-> <<SeedGreeting, [role |-> "user", content |-> "What is ATP?"]>>],
    [messages |-> <<[role |-> "user", content |-> "hi"],
                    [role |-> "assistant", content |-> ""],
                    [role |-> "system", content |-> "again"]>>] }

\* req.query of GET /api/search
SearchQueries ==
  { [format |-> "json"],
    [q |-> ""], [q |-> "  "], [q |-> "cats"], [q |-> " Krebs cycle "] }

WikipediaBodies ==
  { [batchcomplete |-> ""],
    [error |-> [code |-> "badvalue"]],
    [error |-> [code |-> "ratelimited", message |-> "Daily Limit Exceeded"]],
    [query |-> [searchinfo |-> [totalhits |-> 0]]],
    [query |-> [search |-> <<>>]],
    [query |-> [search |->
        << [title |-> "Krebs cycle"],
           [title   |-> "Citric acid/TCA  cycle",
            snippet |-> "The <span class=\"searchmatch\">Krebs</span> cycle > all"] >>]] }

WikipediaOutcomes ==
  { [error |-> e] : e \in UpstreamErrors }
  \cup { [ok |-> o, data |-> d] : o \in BOOLEAN, d \in WikipediaBodies }

\* values of correctAnswer a generated question may carry (it may also be
\* absent); MaxOption + 1 is an index past the last option
CorrectAnswers == 0..(MaxOption + 1)

Options == [i \in 1..(MaxOption + 1) |-> IF i = 1 THEN "A" ELSE "B"]

GeneratedQuestions ==
  { [question |-> "Q?", options |-> Options] }
  \cup { [question |-> "Q?", options |-> Options, correctAnswer |-> c] :
           c \in CorrectAnswers }

RECURSIVE SeqsUpTo(_, _)
SeqsUpTo(S, n) ==
  IF n = 0 THEN { <<>> }
  ELSE LET shorter == SeqsUpTo(S, n - 1)
       IN  shorter \cup { Append(s, x) : s \in shorter, x \in S }

\* what JSON.parse may return for the generated quiz text
QuizPayloads ==
  { [notes |-> "no quiz"] }
  \cup { [questions |-> qs] : qs \in SeqsUpTo(GeneratedQuestions, MaxQuestions) }

GeminiQuizOutcomes ==
  { [error |-> e] : e \in UpstreamErrors }
  \cup { [parsed |-> Null] }
  \cup { [parsed |-> Some(p)] : p \in QuizPayloads }

\* bodies an HTTP client may POST to /api/generate-quiz
QuizBodies == { [messages |-> <<>>], [topic |-> ""], [topic |-> "Photosynthesis"] }

-----------------------------------------------------------------------------
(* Initial state *)

\* no answer recorded: the object {}
NoAnswers == [i \in {} |-> 0]

ServerInit ==
  /\ env \in Envs
  /\ srvLog = [endpoint |-> "none"]

\* useState initial values of App, StudyChat and QuizGenerator
ClientInit ==
  /\ activeTab = "chat"
  /\ messages = <<SeedGreeting>>
  /\ input = ""
  /\ isLoading = FALSE
  /\ chatReqs = <<>>
  /\ topic = ""
  /\ questions = Null
  /\ answers = NoAnswers
  /\ submitted = FALSE
  /\ score = Null
  /\ isGenerating = FALSE
  /\ quizReqs = <<>>
  /\ alerts = ""
  /\ lastOp = [name |-> ""]

Init == ServerInit /\ ClientInit

clientVars ==
  <<activeTab, messages, input, isLoading, chatReqs, topic, questions, answers,
    submitted, score, isGenerating, quizReqs, alerts, lastOp>>

-----------------------------------------------------------------------------
(* The API answering requests of an arbitrary HTTP client *)

ApiChat ==
  \E body \in ChatBodies, up \in GeminiChatOutcomes :
    /\ srvLog' = [endpoint |-> "chat", request |-> body,
                  resp |-> ChatEndpoint(body, up)]
    /\ UNCHANGED <<env, clientVars>>

ApiSearch ==
  \E query \in SearchQueries, up \in WikipediaOutcomes :
    /\ srvLog' = [endpoint |-> "search", request |-> query,
                  resp |-> SearchEndpoint(query, up)]
    /\ UNCHANGED <<env, clientVars>>

ApiGenerateQuiz ==
  \E body \in QuizBodies, up \in GeminiQuizOutcomes :
    /\ srvLog' = [endpoint |-> "generate-quiz", request |-> body,
                  resp |-> QuizEndpoint(body, up)]
    /\ UNCHANGED <<env, clientVars>>

NextServer == ApiChat \/ ApiSearch \/ ApiGenerateQuiz

SpecServer == Init /\ [][NextServer]_vars

-----------------------------------------------------------------------------
(* Properties of the API *)

\* C1: with GEMINI_API_KEY unset, POST /api/chat and POST /api/generate-quiz
\* answer 503 with a message telling the user to set GEMINI_API_KEY, and make
\* no upstream call.
C1_NoKeyIs503 ==
  (srvLog.endpoint \in {"chat", "generate-quiz"} /\ ~Has(env, "GEMINI_API_KEY"))
    => /\ srvLog.resp.status = 503
       /\ Has(srvLog.resp.body, "details")
       /\ Includes(srvLog.resp.body.details, "GEMINI_API_KEY")
       /\ Len(srvLog.resp.upstream) = 0

QueryIsBlank(query) == ~Has(query, "q") \/ Trim(query.q) = ""

C9_SearchFailureIsClassified ==
  (srvLog.endpoint = "search" /\ srvLog.resp.status = 500)
    => srvLog.resp.body.details = buildSearchErrorMessage(srvLog.resp.logged[1])

HasAny(s, subs) == \E sub \in subs : Includes(s, sub)

\* C10: createErrorMessage is an ordered, case-insensitive, first-match rule
\* list: permission/unauthorized/api key -> invalid-credential guidance; else
\* quota/billing/exceeded -> quota guidance; else rate limit -> rate-limit
\* guidance; else the upstream message unchanged (a fixed default when the
\* error has no message).
C10_ErrorRuleList ==
  (srvLog.endpoint \in {"chat", "generate-quiz"} /\ srvLog.resp.status = 500)
    => LET error   == srvLog.resp.logged[1]
           details == srvLog.resp.body.details
           lower   == IF Has(error, "message") THEN ToLowerCase(error.message) ELSE ""
           rule1   == HasAny(lower, {"permission", "unauthorized", "api key"})
           rule2   == HasAny(lower, {"quota", "billing", "exceeded"})
           rule3   == Includes(lower, "rate limit")
       IN  /\ rule1 => details = InvalidKeyGuidance
           /\ (~rule1 /\ rule2) => details = QuotaGuidance
           /\ (~rule1 /\ ~rule2 /\ rule3) => details = RateLimitGuidance
           /\ (~rule1 /\ ~rule2 /\ ~rule3)
                => details = IF Has(error, "message") /\ error.message # ""
                             THEN error.message ELSE DefaultGeminiError

\* an upper-case "API key" message that also names a quota: rule 1 wins
C10_Witness ==
  /\ srvLog.endpoint = "chat"
  /\ srvLog.resp.status = 500
  /\ srvLog.resp.logged[1] = [name |-> "Error", message |-> "Your API key has no quota left"]
  /\ srvLog.resp.body.details = InvalidKeyGuidance

-----------------------------------------------------------------------------
(* The browser session.  A fetch that was issued and has not settled is a  *)
(* record in chatReqs / quizReqs:                                          *)
(*   live   TRUE while the component instance that issued it is mounted    *)
(*   resp   Null until the network has an outcome for it, then Some(o):    *)
(*          o = [networkError |-> msg]            fetch rejects            *)
(*          o = [status |-> n, json |-> Null]     a body that is not JSON  *)
(*          o = [status |-> n, json |-> Some(b)]  the API's JSON body b    *)
(* Once the issuing instance is unmounted the state setters its            *)
(* continuation calls do nothing, so of such a fetch only live = FALSE and *)
(* the url are kept.                                                       *)

\* what the user may type into the chat box
ChatInputs == { "", "  ", "What is ATP?", "/search  ", "/Search Krebs cycle" }

\* what the user may type into the topic box
TopicInputs == { "", " ", "Photosynthesis" }

\* upstream outcomes during a browser session
SessionErrors ==
  { [name |-> "Error", message |-> "Rate limit exceeded"],
    [name |-> "Error", message |-> "fetch failed"] }

SessionChatOutcomes ==
  { [text |-> "Photosynthesis turns light into sugar."] }
  \cup { [error |-> e] : e \in SessionErrors }

SessionSearchOutcomes ==
  { [error |-> [name |-> "Error", message |-> "fetch failed"]],
    [ok |-> FALSE, data |-> [error |-> [code |-> "ratelimited", message |-> "Daily Limit Exceeded"]]],
    [ok |-> TRUE, data |-> [query |-> [search |-> <<>>]]],
    [ok |-> TRUE, data |-> [query |-> [search |-> <<[title |-> "Krebs cycle"]>>]]] }

SessionQuizOutcomes ==
  { [error |-> [name |-> "Error", message |-> "fetch failed"]],
    [parsed |-> Null] }
  \cup { [parsed |-> Some(p)] : p \in QuizPayloads }

\* outcomes of a fetch that never reaches the API or is answered by a proxy
TransportFailures ==
  { [networkError |-> "Failed to fetch"],
    [status |-> 502, json |-> Null] }

ResponseOk(o) == o.status >= 200 /\ o.status <= 299

\* the sequence s without its i-th element
RemoveAt(s, i) == SubSeq(s, 1, i - 1) \o SubSeq(s, i + 1, Len(s))

\* the pending fetches of a component once it is unmounted
Orphaned(reqs) == [i \in 1..Len(reqs) |-> [live |-> FALSE, url |-> reqs[i].url]]

\* lastOp after a step in which `handler` returned at its guard, and after
\* any other step
EarlyReturn(handler) == [name |-> handler]

NoEarlyReturn == [name |-> ""]

-----------------------------------------------------------------------------
(* App.jsx *)

\* setActiveTab(tab): the panel of the other tab is unmounted, losing its
\* state, and the panel of `tab` is mounted with its initial state
SetActiveTab(tab) ==
  /\ IF tab = activeTab
     THEN /\ lastOp' = NoEarlyReturn
          /\ UNCHANGED <<activeTab, chatVars, chatReqs, quizVars, quizReqs>>
     ELSE /\ activeTab' = tab
          /\ lastOp' = NoEarlyReturn
          /\ messages' = <<SeedGreeting>>
          /\ input' = ""
          /\ isLoading' = FALSE
          /\ topic' = ""
          /\ questions' = Null
          /\ answers' = NoAnswers
          /\ submitted' = FALSE
          /\ score' = Null
          /\ isGenerating' = FALSE
          /\ chatReqs' = Orphaned(chatReqs)
          /\ quizReqs' = Orphaned(quizReqs)
  /\ UNCHANGED serverVars
  /\ alerts' = ""

-----------------------------------------------------------------------------
(* StudyChat (src/unnamed/part_000) *)

EmptyObject == [k \in {} |-> ""]

\* the catch block appending a fixed text instead of error.message
ErrorEntry_FixedText(message) ==
  [role    |-> "assistant",
   content |-> "Sorry, I encountered an error: Failed to get response"
               \o ". Please check your Gemini API key and try again."]

\* the assistant entry the catch block appends
ErrorEntry(message) ==
  [role    |-> "assistant",
   content |-> "Sorry, I encountered an error: " \o message
               \o ". Please check your Gemini API key and try again."]

\* `${idx + 1}. ${r.title}\n${r.link}\n${r.snippet || ''}` joined by '\n\n'
RECURSIVE FormatResults(_, _)
FormatResults(results, idx) ==
  IF idx > Len(results) THEN ""
  ELSE LET r == results[idx]
       IN  ToString(idx) \o ". " \o r.title \o "\n" \o r.link \o "\n"
           \o OrElse(r, "snippet", "")
           \o (IF idx < Len(results) THEN "\n\n" ELSE "")
           \o FormatResults(results, idx + 1)

\* the message of the error thrown inside try for outcome o of the fetch,
\* Null if the try block completes
ChatThrown(r, o) ==
  IF Has(o, "networkError") THEN Some(o.networkError)
  ELSE IF ~ResponseOk(o)
  THEN LET errorData == IF IsNull(o.json) THEN EmptyObject ELSE Val(o.json)
       IN  Some(OrElse(errorData, "details",
                  OrElse(errorData, "error",
                         IF r.kind = "search" THEN "Search failed"
                         ELSE "Failed to get response")))
  ELSE IF IsNull(o.json) THEN Some("Unexpected token < in JSON at position 0")
  ELSE Null

\* the success path without the `results.length > 0` test of line 46
ChatSuccessEntry_NoEmptyCase(r, data) ==
  IF r.kind = "search"
  THEN LET formatted == IF Has(data, "results")
                        THEN FormatResults(data.results, 1)
                        ELSE "No results found."
       IN  [role    |-> "assistant",
            content |-> "Here are the top results for \"" \o r.searchQuery
                        \o "\":\n\n" \o formatted]
  ELSE IF Has(data, "response")
       THEN [role |-> "assistant", content |-> data.response]
       ELSE [role |-> "assistant"]

\* the assistant entry appended when the try block completes
ChatSuccessEntry(r, data) ==
  IF r.kind = "search"
  THEN LET formatted == IF Has(data, "results") /\ Len(data.results) > 0
                        THEN FormatResults(data.results, 1)
                        ELSE "No results found."
       IN  [role    |-> "assistant",
            content |-> "Here are the top results for \"" \o r.searchQuery
                        \o "\":\n\n" \o formatted]
  ELSE IF Has(data, "response")
       THEN [role |-> "assistant", content |-> data.response]
       ELSE [role |-> "assistant"]

\* the entry appended once the fetch of request r settles with outcome o
ChatSettleEntry(r, o) ==
  IF IsNull(ChatThrown(r, o))
  THEN ChatSuccessEntry(r, Val(o.json))
  ELSE ErrorEntry(Val(ChatThrown(r, o)))

\* setMessages keeping a window that drops the oldest entry: [...prev.slice(1), entry]
AppendEntry_DropOldest(prev, entry) == Append(Tail(prev), entry)

\* setMessages with the new entry put first: [entry, ...prev]
AppendEntry_Prepend(prev, entry) == <<entry>> \o prev

\* setMessages((prev) => [...prev, entry])
AppendEntry(prev, entry) == Append(prev, entry)

\* onChange of the text box, which is disabled while isLoading
ChatSetInput(value) ==
  /\ activeTab = "chat"
  /\ ~isLoading
  /\ input' = value
  /\ lastOp' = NoEarlyReturn
  /\ UNCHANGED <<serverVars, activeTab, messages, isLoading, chatReqs,
                 quizVars, quizReqs>>
  /\ alerts' = ""

\* handleSubmit up to the first await
ChatHandleSubmit ==
  /\ activeTab = "chat"
  /\ IF Trim(input) = "" \/ isLoading
     THEN /\ lastOp' = EarlyReturn("StudyChat.handleSubmit")
          /\ UNCHANGED <<chatVars, chatReqs>>
     ELSE LET userMessage == [role |-> "user", content |-> input]
              isSearch    == StartsWith(ToLowerCase(Trim(input)), "/search ")
              searchQuery == IF isSearch THEN Trim(Slice(Trim(input), 8)) ELSE ""
              sent        == AppendEntry(messages, userMessage)
          IN  /\ Len(messages) + 2 <= MaxMessages
              /\ Len(chatReqs) < MaxPending
              /\ input' = ""
              /\ IF isSearch /\ searchQuery = ""
                 THEN \* thrown before any fetch: catch and finally run at once
                      /\ messages' = AppendEntry(sent,
                            ErrorEntry("Please provide a search query after /search"))
                      /\ isLoading' = FALSE
                      /\ lastOp' = NoEarlyReturn
                      /\ UNCHANGED chatReqs
                 ELSE /\ messages' = sent
                      /\ isLoading' = TRUE
                      /\ lastOp' = NoEarlyReturn
                      /\ chatReqs' = Append(chatReqs,
                           IF isSearch
                           THEN [live |-> TRUE, kind |-> "search",
                                 url  |-> "/api/search?q=" \o encodeURIComponent(searchQuery),
                                 searchQuery |-> searchQuery, resp |-> Null]
                           ELSE [live |-> TRUE, kind |-> "chat",
                                 url  |-> "/api/chat",
                                 body |-> [messages |-> sent], resp |-> Null])
  /\ UNCHANGED <<serverVars, activeTab, quizVars, quizReqs>>
  /\ alerts' = ""

\* the continuation of handleSubmit without the finally block: isLoading is
\* cleared only when the try block completes
ChatSettle_NoFinally(i) ==
  /\ i \in 1..Len(chatReqs)
  /\ chatReqs[i].live
  /\ ~IsNull(chatReqs[i].resp)
  /\ LET r == chatReqs[i]
         o == Val(r.resp)
     IN  /\ chatReqs' = RemoveAt(chatReqs, i)
         /\ messages' = AppendEntry(messages, ChatSettleEntry(r, o))
         /\ isLoading' = IF IsNull(ChatThrown(r, o)) THEN FALSE ELSE isLoading
         /\ lastOp' = NoEarlyReturn
         /\ UNCHANGED input
  /\ UNCHANGED <<serverVars, activeTab, quizVars, quizReqs>>
  /\ alerts' = ""

\* handleSubmit from the await on: the fetch of chatReqs[i] has settled
ChatSettle(i) ==
  /\ i \in 1..Len(chatReqs)
  /\ chatReqs[i].live
  /\ ~IsNull(chatReqs[i].resp)
  /\ LET r == chatReqs[i]
         o == Val(r.resp)
     IN  /\ chatReqs' = RemoveAt(chatReqs, i)
         /\ messages' = AppendEntry(messages, ChatSettleEntry(r, o))
         /\ isLoading' = FALSE
         /\ lastOp' = NoEarlyReturn
         /\ UNCHANGED input
  /\ UNCHANGED <<serverVars, activeTab, quizVars, quizReqs>>
  /\ alerts' = ""

\* the same continuation in an instance that is no longer mounted: whatever
\* the outcome, its state setters do nothing
ChatSettleUnmounted(i) ==
  /\ i \in 1..Len(chatReqs)
  /\ ~chatReqs[i].live
  /\ chatReqs' = RemoveAt(chatReqs, i)
  /\ lastOp' = NoEarlyReturn
  /\ UNCHANGED <<serverVars, activeTab, chatVars, quizVars, quizReqs>>
  /\ alerts' = ""

-----------------------------------------------------------------------------
(* The network between the panels and the API *)

\* req.query as express parses it from the URL of a search fetch
QueryOf(url) == [q |-> DecodeQueryValue(Slice(url, Len("/api/search?q=")))]

Delivered(reply) == Some([status |-> reply.status, json |-> Some(reply.body)])

\* the API answers the chat fetch chatReqs[i]
ServeChat(i) ==
  /\ i \in 1..Len(chatReqs)
  /\ chatReqs[i].live
  /\ chatReqs[i].kind = "chat"
  /\ IsNull(chatReqs[i].resp)
  /\ \E up \in SessionChatOutcomes :
       chatReqs' = [chatReqs EXCEPT ![i].resp =
                      Delivered(ChatEndpoint(chatReqs[i].body, up))]
  /\ UNCHANGED <<serverVars, activeTab, chatVars, quizVars, quizReqs>>
  /\ alerts' = ""
  /\ lastOp' = NoEarlyReturn

\* the API answers the search fetch chatReqs[i]
ServeSearch(i) ==
  /\ i \in 1..Len(chatReqs)
  /\ chatReqs[i].live
  /\ chatReqs[i].kind = "search"
  /\ IsNull(chatReqs[i].resp)
  /\ \E up \in SessionSearchOutcomes :
       chatReqs' = [chatReqs EXCEPT ![i].resp =
                      Delivered(SearchEndpoint(QueryOf(chatReqs[i].url), up))]
  /\ UNCHANGED <<serverVars, activeTab, chatVars, quizVars, quizReqs>>
  /\ alerts' = ""
  /\ lastOp' = NoEarlyReturn

\* the fetch chatReqs[i] fails on the way
ChatTransportFails(i) ==
  /\ i \in 1..Len(chatReqs)
  /\ chatReqs[i].live
  /\ IsNull(chatReqs[i].resp)
  /\ \E o \in TransportFailures :
       chatReqs' = [chatReqs EXCEPT ![i].resp = Some(o)]
  /\ UNCHANGED <<serverVars, activeTab, chatVars, quizVars, quizReqs>>
  /\ alerts' = ""
  /\ lastOp' = NoEarlyReturn

\* the API answers the quiz fetch quizReqs[i]
ServeGenerateQuiz(i) ==
  /\ i \in 1..Len(quizReqs)
  /\ quizReqs[i].live
  /\ IsNull(quizReqs[i].resp)
  /\ \E up \in SessionQuizOutcomes :
       quizReqs' = [quizReqs EXCEPT ![i].resp =
                      Delivered(QuizEndpoint(quizReqs[i].body, up))]
  /\ UNCHANGED <<serverVars, activeTab, chatVars, chatReqs, quizVars>>
  /\ alerts' = ""
  /\ lastOp' = NoEarlyReturn

\* the fetch quizReqs[i] fails on the way
QuizTransportFails(i) ==
  /\ i \in 1..Len(quizReqs)
  /\ quizReqs[i].live
  /\ IsNull(quizReqs[i].resp)
  /\ \E o \in TransportFailures :
       quizReqs' = [quizReqs EXCEPT ![i].resp = Some(o)]
  /\ UNCHANGED <<serverVars, activeTab, chatVars, chatReqs, quizVars>>
  /\ alerts' = ""
  /\ lastOp' = NoEarlyReturn

-----------------------------------------------------------------------------
(* QuizGenerator.jsx.  Questions are numbered from 1 here (index + 1 of   *)
(* the source); option indices are those of the source, from 0.            *)

\* the value of `questions` after setQuestions(undefined)
Undefined == <<"undefined">>

\* !questions
NoQuestions(qs) == qs[1] \in {"null", "undefined"}

QuizAlertText ==
  "Failed to generate quiz. Please make sure your Gemini API key is configured correctly."

\* answers[index] === q.correctAnswer, where an absent property reads as
\* undefined on either side
AnswerMatches(ans, index, q) ==
  IF Has(ans, index) /\ Has(q, "correctAnswer") THEN ans[index] = q.correctAnswer
  ELSE ~Has(ans, index) /\ ~Has(q, "correctAnswer")

\* correctCount after questions.forEach(...)
CorrectCount(qs, ans) ==
  Cardinality({ index \in 1..Len(qs) : AnswerMatches(ans, index, qs[index]) })

\* { ...prev, [questionIndex]: answerIndex }
WithAnswer(prev, questionIndex, answerIndex) ==
  [k \in (DOMAIN prev) \cup {questionIndex} |->
     IF k = questionIndex THEN answerIndex ELSE prev[k]]

\* the markup of one option with the correct option marked whether or not
\* the quiz is submitted
RenderOption_AlwaysMarked(question, qIndex, oIndex, ans, sub) ==
  LET isSelected == Has(ans, qIndex) /\ ans[qIndex] = oIndex
      isCorrect  == Has(question, "correctAnswer") /\ oIndex = question.correctAnswer
      isWrong    == sub /\ isSelected /\ ~isCorrect
  IN  [labelClass |-> IF isCorrect THEN "bg-green-100 border-2 border-green-500"
                      ELSE IF isWrong THEN "bg-red-100 border-2 border-red-500"
                      ELSE IF sub THEN "bg-gray-100"
                      ELSE IF isSelected THEN "bg-blue-100 border-2 border-blue-500"
                      ELSE "bg-white border-2 border-gray-200 hover:border-blue-300",
       checked    |-> isSelected,
       disabled   |-> sub,
       spanClass  |-> IF isCorrect THEN "text-green-800 font-semibold"
                      ELSE IF isWrong THEN "text-red-800"
                      ELSE "text-gray-700",
       text       |-> question.options[oIndex + 1],
       mark       |-> IF isCorrect THEN "correct"
                      ELSE IF isWrong THEN "wrong" ELSE ""]

\* the markup of option oIndex of question qIndex: the class of the label,
\* the radio button, the class and text of the span, and the mark after it
RenderOption(question, qIndex, oIndex, ans, sub) ==
  LET isSelected == Has(ans, qIndex) /\ ans[qIndex] = oIndex
      isCorrect  == Has(question, "correctAnswer") /\ oIndex = question.correctAnswer
      isWrong    == sub /\ isSelected /\ ~isCorrect
  IN  [labelClass |-> IF sub
                      THEN IF isCorrect THEN "bg-green-100 border-2 border-green-500"
                           ELSE IF isWrong THEN "bg-red-100 border-2 border-red-500"
                           ELSE "bg-gray-100"
                      ELSE IF isSelected THEN "bg-blue-100 border-2 border-blue-500"
                      ELSE "bg-white border-2 border-gray-200 hover:border-blue-300",
       checked    |-> isSelected,
       disabled   |-> sub,
       spanClass  |-> IF sub /\ isCorrect THEN "text-green-800 font-semibold"
                      ELSE IF sub /\ isWrong THEN "text-red-800"
                      ELSE "text-gray-700",
       text       |-> question.options[oIndex + 1],
       mark       |-> IF sub /\ isCorrect THEN "correct"
                      ELSE IF sub /\ isWrong THEN "wrong" ELSE ""]

\* the markup of one question: its heading and its options
RenderQuestion(question, qIndex, ans, sub) ==
  [heading |-> question.question,
   options |-> [k \in 1..Len(question.options) |->
                  RenderOption(question, qIndex, k - 1, ans, sub)]]

\* questions.map(...): the markup of the questions, one after the other
RenderQuestions(qs, ans, sub) ==
  [qIndex \in 1..Len(qs) |-> RenderQuestion(qs[qIndex], qIndex, ans, sub)]

\* onChange of the topic box, which is disabled while isGenerating
QuizSetTopic(value) ==
  /\ activeTab = "quiz"
  /\ ~isGenerating
  /\ topic' = value
  /\ lastOp' = NoEarlyReturn
  /\ UNCHANGED <<serverVars, activeTab, chatVars, chatReqs, questions, answers,
                 submitted, score, isGenerating, quizReqs>>
  /\ alerts' = ""

\* handleGenerate up to the await without the resets of lines 15-18
QuizHandleGenerate_KeepQuiz ==
  /\ activeTab = "quiz"
  /\ IF Trim(topic) = "" \/ isGenerating
     THEN /\ lastOp' = EarlyReturn("QuizGenerator.handleGenerate")
          /\ UNCHANGED <<quizVars, quizReqs>>
     ELSE /\ Len(quizReqs) < MaxPending
          /\ isGenerating' = TRUE
          /\ quizReqs' = Append(quizReqs,
               [live |-> TRUE, url |-> "/api/generate-quiz",
                body |-> [topic |-> topic], resp |-> Null])
          /\ lastOp' = NoEarlyReturn
          /\ UNCHANGED <<topic, questions, answers, submitted, score>>
  /\ UNCHANGED <<serverVars, activeTab, chatVars, chatReqs>>
  /\ alerts' = ""

\* handleGenerate up to the await
QuizHandleGenerate ==
  /\ activeTab = "quiz"
  /\ IF Trim(topic) = "" \/ isGenerating
     THEN /\ lastOp' = EarlyReturn("QuizGenerator.handleGenerate")
          /\ UNCHANGED <<quizVars, quizReqs>>
     ELSE /\ Len(quizReqs) < MaxPending
          /\ isGenerating' = TRUE
          /\ questions' = Null
          /\ answers' = NoAnswers
          /\ submitted' = FALSE
          /\ score' = Null
          /\ quizReqs' = Append(quizReqs,
               [live |-> TRUE, url |-> "/api/generate-quiz",
                body |-> [topic |-> topic], resp |-> Null])
          /\ lastOp' = NoEarlyReturn
          /\ UNCHANGED topic
  /\ UNCHANGED <<serverVars, activeTab, chatVars, chatReqs>>
  /\ alerts' = ""

\* whether the try block of handleGenerate throws for outcome o of the fetch
QuizThrows(o) ==
  \/ Has(o, "networkError")
  \/ ~Has(o, "networkError") /\ (~ResponseOk(o) \/ IsNull(o.json))

\* handleGenerate from the await on: the fetch of quizReqs[i] has settled
QuizSettle(i) ==
  /\ i \in 1..Len(quizReqs)
  /\ quizReqs[i].live
  /\ ~IsNull(quizReqs[i].resp)
  /\ LET r == quizReqs[i]
         o == Val(r.resp)
     IN  /\ quizReqs' = RemoveAt(quizReqs, i)
         /\ alerts' = IF QuizThrows(o) THEN QuizAlertText ELSE ""
         /\ questions' =
              IF QuizThrows(o) THEN questions
              ELSE IF Has(Val(o.json), "questions")
              THEN Some(Val(o.json).questions)
              ELSE Undefined
         /\ isGenerating' = FALSE
         /\ lastOp' = NoEarlyReturn
         /\ UNCHANGED <<topic, answers, submitted, score>>
  /\ UNCHANGED <<serverVars, activeTab, chatVars, chatReqs>>

\* the same continuation in an instance that is no longer mounted: the
\* state setters do nothing, the alert of the catch block is still shown
QuizSettleUnmounted(i) ==
  /\ i \in 1..Len(quizReqs)
  /\ ~quizReqs[i].live
  /\ quizReqs' = RemoveAt(quizReqs, i)
  /\ \E failed \in BOOLEAN :
       alerts' = IF failed THEN QuizAlertText ELSE ""
  /\ lastOp' = NoEarlyReturn
  /\ UNCHANGED <<serverVars, activeTab, chatVars, chatReqs, quizVars>>

\* handleAnswerChange without the `if (submitted) return` of line 44
QuizHandleAnswerChange_NoGuard(questionIndex, answerIndex) ==
  /\ activeTab = "quiz"
  /\ ~NoQuestions(questions)
  /\ questionIndex \in 1..Len(Val(questions))
  /\ answerIndex \in 0..(Len(Val(questions)[questionIndex].options) - 1)
  /\ answers' = WithAnswer(answers, questionIndex, answerIndex)
  /\ lastOp' = IF submitted THEN EarlyReturn("QuizGenerator.handleAnswerChange")
                ELSE NoEarlyReturn
  /\ UNCHANGED <<serverVars, activeTab, chatVars, chatReqs, topic, questions,
                 submitted, score, isGenerating, quizReqs>>
  /\ alerts' = ""

\* handleAnswerChange, called by the radio button of option answerIndex of
\* question questionIndex
QuizHandleAnswerChange(questionIndex, answerIndex) ==
  /\ activeTab = "quiz"
  /\ ~NoQuestions(questions)
  /\ questionIndex \in 1..Len(Val(questions))
  /\ answerIndex \in 0..(Len(Val(questions)[questionIndex].options) - 1)
  /\ IF submitted
     THEN /\ lastOp' = EarlyReturn("QuizGenerator.handleAnswerChange")
          /\ UNCHANGED answers
     ELSE /\ answers' = WithAnswer(answers, questionIndex, answerIndex)
          /\ lastOp' = NoEarlyReturn
  /\ UNCHANGED <<serverVars, activeTab, chatVars, chatReqs, topic, questions,
                 submitted, score, isGenerating, quizReqs>>
  /\ alerts' = ""

\* handleSubmit without the setSubmitted(true) of line 62
QuizHandleSubmit_ScoreOnly ==
  /\ activeTab = "quiz"
  /\ IF NoQuestions(questions) \/ submitted
     THEN /\ lastOp' = EarlyReturn("QuizGenerator.handleSubmit")
          /\ UNCHANGED score
     ELSE /\ score' = Some(CorrectCount(Val(questions), answers))
          /\ lastOp' = NoEarlyReturn
  /\ UNCHANGED <<serverVars, activeTab, chatVars, chatReqs, topic, questions,
                 answers, submitted, isGenerating, quizReqs>>
  /\ alerts' = ""

\* handleSubmit without the `submitted` guard and with a running total
QuizHandleSubmit_Accumulate ==
  /\ activeTab = "quiz"
  /\ IF NoQuestions(questions)
     THEN /\ lastOp' = EarlyReturn("QuizGenerator.handleSubmit")
          /\ UNCHANGED <<score, submitted>>
     ELSE /\ score' = Some((IF IsNull(score) THEN 0 ELSE Val(score))
                           + CorrectCount(Val(questions), answers))
          /\ submitted' = TRUE
          /\ lastOp' = IF submitted THEN EarlyReturn("QuizGenerator.handleSubmit")
                        ELSE NoEarlyReturn
  /\ UNCHANGED <<serverVars, activeTab, chatVars, chatReqs, topic, questions,
                 answers, isGenerating, quizReqs>>
  /\ alerts' = ""

\* handleSubmit
QuizHandleSubmit ==
  /\ activeTab = "quiz"
  /\ IF NoQuestions(questions) \/ submitted
     THEN /\ lastOp' = EarlyReturn("QuizGenerator.handleSubmit")
          /\ UNCHANGED <<score, submitted>>
     ELSE /\ score' = Some(CorrectCount(Val(questions), answers))
          /\ submitted' = TRUE
          /\ lastOp' = NoEarlyReturn
  /\ UNCHANGED <<serverVars, activeTab, chatVars, chatReqs, topic, questions,
                 answers, isGenerating, quizReqs>>
  /\ alerts' = ""

-----------------------------------------------------------------------------
(* The browser session against the API *)

Next ==
  \/ \E tab \in {"chat", "quiz"} : SetActiveTab(tab)
  \/ \E value \in ChatInputs : ChatSetInput(value)
  \/ ChatHandleSubmit
  \/ \E i \in 1..MaxPending : ServeChat(i)
  \/ \E i \in 1..MaxPending : ServeSearch(i)
  \/ \E i \in 1..MaxPending : ChatTransportFails(i)
  \/ \E i \in 1..MaxPending : ChatSettle(i)
  \/ \E i \in 1..MaxPending : ChatSettleUnmounted(i)
  \/ \E value \in TopicInputs : QuizSetTopic(value)
  \/ QuizHandleGenerate
  \/ \E i \in 1..MaxPending : ServeGenerateQuiz(i)
  \/ \E i \in 1..MaxPending : QuizTransportFails(i)
  \/ \E i \in 1..MaxPending : QuizSettle(i)
  \/ \E i \in 1..MaxPending : QuizSettleUnmounted(i)
  \/ \E q \in 1..MaxQuestions, o \in 0..MaxOption : QuizHandleAnswerChange(q, o)
  \/ QuizHandleSubmit

Spec == Init /\ [][Next]_vars

\* the session of a user who only uses the chat panel and the tabs
NextChat ==
  \/ \E tab \in {"chat", "quiz"} : SetActiveTab(tab)
  \/ \E value \in ChatInputs : ChatSetInput(value)
  \/ ChatHandleSubmit
  \/ \E i \in 1..MaxPending : ServeChat(i)
  \/ \E i \in 1..MaxPending : ServeSearch(i)
  \/ \E i \in 1..MaxPending : ChatTransportFails(i)
  \/ \E i \in 1..MaxPending : ChatSettle(i)
  \/ \E i \in 1..MaxPending : ChatSettleUnmounted(i)

SpecChat == Init /\ [][NextChat]_vars

\* the session of a user who only uses the quiz panel and the tabs
NextQuiz ==
  \/ \E tab \in {"chat", "quiz"} : SetActiveTab(tab)
  \/ \E value \in TopicInputs : QuizSetTopic(value)
  \/ QuizHandleGenerate
  \/ \E i \in 1..MaxPending : ServeGenerateQuiz(i)
  \/ \E i \in 1..MaxPending : QuizTransportFails(i)
  \/ \E i \in 1..MaxPending : QuizSettle(i)
  \/ \E i \in 1..MaxPending : QuizSettleUnmounted(i)
  \/ \E q \in 1..MaxQuestions, o \in 0..MaxOption : QuizHandleAnswerChange(q, o)
  \/ QuizHandleSubmit

SpecQuiz == Init /\ [][NextQuiz]_vars

\* The same session where the continuation of a settled fetch is eventually
\* run: once the promise of a fetch is resolved or rejected, the event loop
\* runs the rest of the async handler.  Nothing is assumed of the network.
SpecSettle ==
  /\ Init /\ [][Next]_vars
  /\ WF_vars(\E i \in 1..MaxPending : ChatSettle(i))
  /\ WF_vars(\E i \in 1..MaxPending : QuizSettle(i))

-----------------------------------------------------------------------------
(* Properties of the chat panel *)

\* the input is the command /search followed by whitespace only
IsBlankSearch(s) == ToLowerCase(Trim(s)) = "/search" /\ TrimEnd(s) # s

\* C2: submitting "/search" followed only by whitespace appends an assistant
\* message carrying "Please provide a search query after /search" and issues
\* no network request.
C2_BlankSearchIsRejected ==
  [][(ChatHandleSubmit /\ ~isLoading /\ IsBlankSearch(input))
       => /\ chatReqs' = chatReqs
          /\ Len(messages') = Len(messages) + 2
          /\ messages'[Len(messages')].role = "assistant"
          /\ Includes(messages'[Len(messages')].content,
                      "Please provide a search query after /search")]_vars

\* C3: an accepted submission of a non-blank input M appends exactly the user
\* entry M when the request is sent, its successful settlement appends exactly
\* one assistant entry, and while the request is pending nothing else changes
\* the transcript of the mounted panel.
C3_OneUserOneAssistantEntry ==
  [][/\ (ChatHandleSubmit /\ ~isLoading /\ Trim(input) # "")
          => /\ messages' = Append(messages, [role |-> "user", content |-> input])
             /\ Len(chatReqs') = Len(chatReqs) + 1
     /\ \A i \in 1..MaxPending :
          (ChatSettle(i) /\ IsNull(ChatThrown(chatReqs[i], Val(chatReqs[i].resp))))
            => /\ Len(messages') = Len(messages) + 1
               /\ SubSeq(messages', 1, Len(messages)) = messages
               /\ messages'[Len(messages')].role = "assistant"
     /\ (isLoading /\ activeTab' = activeTab /\ ~(\E i \in 1..MaxPending : ChatSettle(i)))
          => messages' = messages]_vars

\* a second exchange has completed successfully on a transcript of three entries
C3_Witness ==
  /\ ~isLoading
  /\ Len(messages) = 5
  /\ messages[4] = [role |-> "user", content |-> "/Search Krebs cycle"]
  /\ messages[5] = [role    |-> "assistant",
                    content |-> "Here are the top results for \"Krebs cycle\":\n\nNo results found."]

\* C6: each panel has at most one network request outstanding at any time.
C6_OneRequestPerPanel == Len(chatReqs) <= 1 /\ Len(quizReqs) <= 1

\* C7: the chat transcript is append-only: every step extends it at the end.
C7_TranscriptAppendOnly ==
  [][/\ Len(messages') >= Len(messages)
     /\ SubSeq(messages', 1, Len(messages)) = messages]_vars

-----------------------------------------------------------------------------
(* Properties of the quiz panel *)

\* C4: the score set by submit is the number of questions whose recorded
\* answer is defined and equals correctAnswer.
C4_ScoreCountsAnsweredMatches ==
  (submitted /\ ~NoQuestions(questions) /\ ~IsNull(score))
    => Val(score) =
         Cardinality({ i \in 1..Len(Val(questions)) :
                         /\ Has(answers, i)
                         /\ Has(Val(questions)[i], "correctAnswer")
                         /\ answers[i] = Val(questions)[i].correctAnswer })

\* C5: a submit invoked when submitted is already true leaves score,
\* submitted, answers and questions as they are.
C5_SecondSubmitChangesNothing ==
  [][(QuizHandleSubmit /\ submitted)
       => UNCHANGED <<score, submitted, answers, questions>>]_vars

\* submit was invoked on a submitted quiz with a positive score
C5_Witness ==
  /\ lastOp = EarlyReturn("QuizGenerator.handleSubmit")
  /\ submitted
  /\ ~IsNull(score) /\ Val(score) > 0

\* the lookup was made and answered without a hit
ZeroHits(up) ==
  /\ Has(up, "ok") /\ up.ok
  /\ (Has(up.data, "query") /\ Has(up.data.query, "search"))
       => Len(up.data.query.search) = 0

\* C11: when the lookup for a non-blank query returns no hit, GET /api/search
\* answers 200 with an empty results list, and the chat panel, on receiving
\* that answer, appends exactly one assistant entry that contains
\* "No results found." and is not an error entry.
C11_ZeroHitsIsNotAnError ==
  [][\A i \in 1..Len(chatReqs) :
       /\ (/\ hasGeminiKey
           /\ chatReqs[i].live
           /\ IsNull(chatReqs[i].resp)
           /\ ServeSearch(i))
            => \A up \in WikipediaOutcomes :
                 (/\ ZeroHits(up)
                  /\ chatReqs'[i].resp =
                       Delivered(SearchEndpoint(QueryOf(chatReqs[i].url), up)))
                   => /\ Val(chatReqs'[i].resp).status = 200
                      /\ Val(Val(chatReqs'[i].resp).json) = [results |-> <<>>]
       /\ (/\ chatReqs[i].live
           /\ chatReqs[i].kind = "search"
           /\ ~IsNull(chatReqs[i].resp)
           /\ ChatSettle(i)
           /\ Val(chatReqs[i].resp) = [status |-> 200, json |-> Some([results |-> <<>>])])
            => /\ Len(messages') = Len(messages) + 1
               /\ SubSeq(messages', 1, Len(messages)) = messages
               /\ messages'[Len(messages')].role = "assistant"
               /\ Includes(messages'[Len(messages')].content, "No results found.")
               /\ ~Includes(messages'[Len(messages')].content,
                            "Sorry, I encountered an error")]_vars

\* the first exchange of a session was a search without a hit
C11_Witness ==
  /\ hasGeminiKey
  /\ ~isLoading
  /\ Len(messages) = 3
  /\ messages[2] = [role |-> "user", content |-> "/Search Krebs cycle"]
  /\ Includes(messages[3].content, "No results found.")

\* the state of the quiz panel in the state machine of the specification
QuizState ==
  IF isGenerating THEN "Generating"
  ELSE IF NoQuestions(questions) THEN "Empty"
  ELSE IF submitted THEN "Submitted"
  ELSE "Ready"

QuizTransitions ==
  { <<"Empty", "Generating">>, <<"Generating", "Ready">>,
    <<"Generating", "Empty">>, <<"Ready", "Submitted">>,
    <<"Ready", "Generating">>, <<"Submitted", "Generating">> }

\* C12: while the quiz panel is mounted, every step that changes its state
\* makes one of the transitions Empty -> Generating, Generating -> Ready,
\* Generating -> Empty, Ready -> Submitted, Ready or Submitted -> Generating;
\* Generating -> Empty happens only on a failed request, and a successful
\* generate response always leads to Ready.
C12_QuizStateMachine ==
  [][(activeTab = "quiz" /\ activeTab' = "quiz")
       => /\ QuizState' # QuizState => <<QuizState, QuizState'>> \in QuizTransitions
          /\ \A i \in 1..MaxPending :
               QuizSettle(i) =>
                 IF QuizThrows(Val(quizReqs[i].resp))
                 THEN QuizState' = "Empty"
                 ELSE QuizState' = "Ready"]_vars

\* C13: once submitted is true, selecting an answer leaves answers, score and
\* questions as they are, and while the panel stays mounted the only step
\* that changes answers of a submitted quiz is an accepted generate action,
\* which resets submitted to false.
C13_AnswersFrozenOnceSubmitted ==
  [][/\ (submitted /\ \E q \in 1..MaxQuestions, o \in 0..MaxOption :
                         QuizHandleAnswerChange(q, o))
          => UNCHANGED <<answers, score, questions>>
     /\ (submitted /\ activeTab' = activeTab /\ answers' # answers)
          => QuizHandleGenerate /\ ~submitted' /\ answers' = NoAnswers]_vars

\* an option was clicked on a submitted quiz whose first question is answered
C13_Witness ==
  /\ lastOp = EarlyReturn("QuizGenerator.handleAnswerChange")
  /\ submitted
  /\ Has(answers, 1)

\* C14: in every reachable state the chat transcript is non-empty and its
\* first entry is the seed assistant greeting.
C14_SeedGreetingFirst ==
  /\ Len(messages) >= 1
  /\ messages[1] = SeedGreeting

\* two exchanges have been appended after the greeting, the second one failed
C14_Witness ==
  /\ Len(messages) >= 5
  /\ messages[1] = SeedGreeting
  /\ messages[2].role = "user"
  /\ StartsWith(messages[5].content, "Sorry, I encountered an error")

-----------------------------------------------------------------------------
(* Further properties of the API *)

\* the error classified by the last request mentions a rate limit
RateLimitLogged ==
  /\ srvLog.endpoint \in {"chat", "generate-quiz"}
  /\ srvLog.resp.status = 500
  /\ Has(srvLog.resp.logged[1], "message")
  /\ Includes(ToLowerCase(srvLog.resp.logged[1].message), "rate limit")

\* C15 as stated: every upstream error message that contains "rate limit",
\* in any letter case, is mapped to the rate-limit guidance.
C15_RateLimitAlwaysGuidance ==
  RateLimitLogged => srvLog.resp.body.details = RateLimitGuidance

\* C15 amended: a message that contains "rate limit" is mapped to the
\* rate-limit guidance exactly when it contains none of the keywords of the
\* two earlier rules; otherwise it gets the guidance of the earlier rule.
C15_RateLimitUnlessEarlierRule ==
  RateLimitLogged =>
    LET lower   == ToLowerCase(srvLog.resp.logged[1].message)
        earlier == HasAny(lower, {"permission", "unauthorized", "api key",
                                  "quota", "billing", "exceeded"})
        details == srvLog.resp.body.details
    IN  /\ ~earlier => details = RateLimitGuidance
        /\ earlier => details \in {InvalidKeyGuidance, QuotaGuidance}

\* a rate-limit message without a keyword of the earlier rules was classified
C15_Witness ==
  /\ srvLog.endpoint = "generate-quiz"
  /\ srvLog.resp.status = 500
  /\ srvLog.resp.logged[1] = [name |-> "Error", message |-> "Rate limit reached, slow down"]
  /\ srvLog.resp.body.details = RateLimitGuidance

-----------------------------------------------------------------------------
(* The conversation sent to the generative service *)

\* the last request was a chat request for which the service was called
ChatCallMade == srvLog.endpoint = "chat" /\ Len(srvLog.resp.upstream) = 1

\* the turn a transcript entry is mapped to
TurnOf(entry) ==
  [role  |-> IF Has(entry, "role") /\ entry.role = "assistant" THEN "model" ELSE "user",
   parts |-> <<[text |-> entry.content]>>]

HasContent(entry) == Has(entry, "content") /\ entry.content # ""

\* C18 as stated: the conversation is the system instruction followed by
\* exactly one turn per entry of the transcript, in order, assistant mapped
\* to model and any other role to user; no entry is dropped.
C18_OneTurnPerEntry ==
  ChatCallMade =>
    LET T        == srvLog.request.messages
        contents == srvLog.resp.upstream[1].contents
    IN  /\ Len(contents) = Len(T) + 1
        /\ contents[1] = [role |-> "user", parts |-> <<[text |-> STUDY_CHAT_PROMPT]>>]
        /\ \A k \in 1..Len(T) : contents[k + 1] = TurnOf(T[k])

\* C18 amended: the conversation is the system instruction followed by
\* exactly one turn per entry of the transcript that has a non-empty content,
\* in order, assistant mapped to model and any other role to user; entries
\* whose content is absent or empty are dropped.
C18_OneTurnPerNonEmptyEntry ==
  ChatCallMade =>
    LET T        == srvLog.request.messages
        kept     == SelectSeq(T, HasContent)
        contents == srvLog.resp.upstream[1].contents
    IN  /\ Len(contents) = Len(kept) + 1
        /\ contents[1] = [role |-> "user", parts |-> <<[text |-> STUDY_CHAT_PROMPT]>>]
        /\ \A k \in 1..Len(kept) : contents[k + 1] = TurnOf(kept[k])

\* a transcript of three entries, the second with an empty content, was sent
\* on as the instruction and two turns
C18_Witness ==
  /\ ChatCallMade
  /\ Len(srvLog.request.messages) = 3
  /\ srvLog.request.messages[2].content = ""
  /\ Len(srvLog.resp.upstream[1].contents) = 3
  /\ srvLog.resp.upstream[1].contents[3].role = "user"

-----------------------------------------------------------------------------
(* Regenerating a quiz *)

\* nothing of a quiz is held by the panel
QuizCleared ==
  /\ questions = Null
  /\ answers = NoAnswers
  /\ submitted = FALSE
  /\ score = Null

\* C19: an accepted generate action (non-blank topic, none in flight) clears
\* questions, answers, score and submitted in the step that sends the request;
\* they stay cleared while the request is in flight; and when the request
\* fails an alert is shown and the panel is Empty with everything still
\* cleared, so the previous quiz does not reappear.
C19_RegenerateClearsQuiz ==
  [][/\ (QuizHandleGenerate /\ Trim(topic) # "" /\ ~isGenerating)
          => QuizCleared' /\ isGenerating' /\ Len(quizReqs') = Len(quizReqs) + 1
     /\ isGenerating' => QuizCleared'
     /\ \A i \in 1..MaxPending :
          (QuizSettle(i) /\ QuizThrows(Val(quizReqs[i].resp)))
            => /\ alerts' = QuizAlertText
               /\ QuizState' = "Empty"
               /\ QuizCleared']_vars

\* the request for "Photosynthesis" has just failed: the alert is up and the
\* panel is Empty
C19_Witness ==
  /\ activeTab = "quiz"
  /\ alerts = QuizAlertText
  /\ topic = "Photosynthesis"
  /\ QuizState = "Empty"
  /\ QuizCleared
  /\ quizReqs = <<>>

-----------------------------------------------------------------------------
(* Validation of the chat request *)

\* C20: with the credential configured, a POST /api/chat whose body has no
\* messages field is answered 400 as invalid client input, not 500 as an
\* upstream failure.
C20_MissingMessagesIs400 ==
  (srvLog.endpoint = "chat" /\ hasGeminiKey /\ ~Has(srvLog.request, "messages"))
    => srvLog.resp.status = 400

-----------------------------------------------------------------------------
(* Liveness of the in-flight flags *)

\* the fetch of a mounted panel has settled and its continuation is due
ChatFetchSettled ==
  \E i \in 1..Len(chatReqs) : chatReqs[i].live /\ ~IsNull(chatReqs[i].resp)

QuizFetchSettled ==
  \E i \in 1..Len(quizReqs) : quizReqs[i].live /\ ~IsNull(quizReqs[i].resp)

\* C16: whenever the request of a panel has settled, with any outcome, the
\* panel eventually has its in-flight flag cleared (isLoading for the chat,
\* isGenerating for the quiz) and accepts a new submission.
C16_FlagClearedOnceSettled ==
  /\ ChatFetchSettled ~> ~isLoading
  /\ QuizFetchSettled ~> ~isGenerating

\* a chat request failed on the way and the panel accepts input again
C16_Witness ==
  /\ activeTab = "chat"
  /\ ~isLoading
  /\ Len(messages) = 3
  /\ messages[3] = ErrorEntry("Failed to fetch")

-----------------------------------------------------------------------------
(* Error reporting of the chat panel *)

\* the fetch of the chat request r has failed: it was rejected or answered
\* with a status outside 200..299
ChatRequestFailed(r) ==
  /\ r.kind = "chat"
  /\ ~IsNull(r.resp)
  /\ Has(Val(r.resp), "networkError") \/ ~ResponseOk(Val(r.resp))

\* the text the panel reports for the failed chat request r: the details of
\* the server's answer, else its error, else a fixed text; the message of the
\* exception when the fetch was rejected
ReportedFailure(r) ==
  LET o == Val(r.resp)
  IN  IF Has(o, "networkError") THEN o.networkError
      ELSE IF IsNull(o.json) THEN "Failed to get response"
      ELSE LET body == Val(o.json)
           IN  IF Has(body, "details") /\ body.details # "" THEN body.details
               ELSE IF Has(body, "error") /\ body.error # "" THEN body.error
               ELSE "Failed to get response"

\* C17 as stated: when a chat request fails the panel appends exactly one
\* assistant entry "Sorry, I encountered an error: <message>. Please check
\* your API key and try again." and changes nothing else of the transcript.
C17_FailureEntryAsStated ==
  [][\A i \in 1..MaxPending :
       (ChatSettle(i) /\ ChatRequestFailed(chatReqs[i]))
         => messages' = Append(messages,
              [role    |-> "assistant",
               content |-> "Sorry, I encountered an error: "
                           \o ReportedFailure(chatReqs[i])
                           \o ". Please check your API key and try again."])]_vars

\* C17 amended: the appended entry reads "Sorry, I encountered an error:
\* <message>. Please check your Gemini API key and try again.", where
\* <message> is the details of the server's answer, else its error, else
\* "Failed to get response", or the exception's message when the fetch was
\* rejected; nothing else of the transcript changes.
C17_FailureEntry ==
  [][\A i \in 1..MaxPending :
       (ChatSettle(i) /\ ChatRequestFailed(chatReqs[i]))
         => messages' = Append(messages,
              [role    |-> "assistant",
               content |-> "Sorry, I encountered an error: "
                           \o ReportedFailure(chatReqs[i])
                           \o ". Please check your Gemini API key and try again."])]_vars

\* the server's classification of an upstream failure is shown in the chat
C17_Witness ==
  /\ ~isLoading
  /\ Len(messages) = 3
  /\ messages[2] = [role |-> "user", content |-> "What is ATP?"]
  /\ messages[3].content = "Sorry, I encountered an error: " \o QuotaGuidance
                           \o ". Please check your Gemini API key and try again."

-----------------------------------------------------------------------------
(* What the quiz shows before submission *)

\* the question q with every value correctAnswer may take, or without it
AnswerKeyVariants(q) ==
  { [question |-> q.question, options |-> q.options] }
  \cup { [question |-> q.question, options |-> q.options, correctAnswer |-> c] :
           c \in CorrectAnswers }

\* C21: before submission the rendering of the quiz does not depend on the
\* correct answers: the markup of the quiz is the sequence of the markups of
\* its questions, and each question renders, with the same answers, to the
\* same markup whatever its correctAnswer is (and when it has none); no
\* option carries a correct or wrong mark; and an option is highlighted
\* exactly when it is the user's current selection.
C21_AnswerKeyHiddenBeforeSubmit ==
  (~NoQuestions(questions) /\ ~submitted)
    => LET shown == RenderQuestions(Val(questions), answers, submitted)
       IN  \A q \in 1..Len(shown) :
             /\ \A other \in AnswerKeyVariants(Val(questions)[q]) :
                  RenderQuestion(other, q, answers, submitted) = shown[q]
             /\ \A k \in 1..Len(shown[q].options) :
                  /\ shown[q].options[k].mark = ""
                  /\ shown[q].options[k].spanClass = "text-gray-700"
                  /\ shown[q].options[k].labelClass = "bg-blue-100 border-2 border-blue-500"
                       <=> (Has(answers, q) /\ answers[q] = k - 1)

\* a quiz of two questions is shown unsubmitted; the user has selected the
\* correct option of the first question and a wrong one of the second
C21_Witness ==
  /\ activeTab = "quiz"
  /\ ~NoQuestions(questions) /\ ~submitted
  /\ Len(Val(questions)) = 2
  /\ Has(Val(questions)[1], "correctAnswer") /\ Has(Val(questions)[2], "correctAnswer")
  /\ Has(answers, 1) /\ answers[1] = Val(questions)[1].correctAnswer
  /\ Has(answers, 2) /\ answers[2] # Val(questions)[2].correctAnswer

-----------------------------------------------------------------------------
(* Score and submitted *)

\* C22: in every reachable state of the quiz panel the score is non-null
\* exactly when submitted is true, a submitted panel holds a quiz, and a
\* non-null score lies between 0 and the number of questions of that quiz.
C22_ScoreIffSubmitted ==
  /\ ~IsNull(score) <=> submitted
  /\ submitted => ~NoQuestions(questions)
  /\ ~IsNull(score)
       => /\ ~NoQuestions(questions)
          /\ 0 <= Val(score)
          /\ Val(score) <= Len(Val(questions))

\* a quiz of two questions was submitted with one of them counted correct
C22_Witness ==
  /\ activeTab = "quiz"
  /\ submitted
  /\ ~NoQuestions(questions)
  /\ Len(Val(questions)) = 2
  /\ score = Some(1)
  /\ ~isGenerating

=============================================================================
